---- MODULE Spec2Model ----
(***************************************************************************)
(* A model of the directory diff viewer of src/driver/main.py: the scan of *)
(* two directory trees (list_files, scan_directories), the change          *)
(* classifier (has_significant_changes), the line aligner walked by        *)
(* highlight_diff, and the navigation handlers.                            *)
(*                                                                         *)
(* Text is a sequence of one-character strings.  A threshold or a ratio is *)
(* a pair <<numerator, denominator>> with a positive denominator, compared *)
(* by cross multiplication (the float division of two small integers is    *)
(* correctly rounded and monotone, so the comparisons agree).              *)
(***************************************************************************)
EXTENDS Integers, Sequences, FiniteSets, TLC

(***************************************************************************)
(* Bounds of the model.                                                    *)
(***************************************************************************)
MaxLen == 4
MaxLines == 3
MaxFileLen == 2
ScenarioLines == 20

(***************************************************************************)
(* Small helpers.                                                          *)
(***************************************************************************)
Max(x, y) == IF x >= y THEN x ELSE y

SetMax(S) == CHOOSE x \in S : \A y \in S : y <= x

SetMin(S) == CHOOSE x \in S : \A y \in S : x <= y

RatGE(p, q) == p[1] * q[2] >= q[1] * p[2]

RatGT(p, q) == p[1] * q[2] > q[1] * p[2]

RECURSIVE SeqsUpTo(_, _)
SeqsUpTo(S, n) ==
    IF n = 0 THEN {<<>>}
    ELSE LET shorter == SeqsUpTo(S, n - 1)
         IN  shorter \cup {Append(s, x) : s \in {t \in shorter : Len(t) = n - 1}, x \in S}

(***************************************************************************)
(* str.splitlines(keepends): a line ends at a line boundary; "\r\n" is one *)
(* boundary; text after the last boundary is a last, unterminated line.    *)
(***************************************************************************)
LineBoundaries == {"\n", "\r", "\f"}

RECURSIVE SplitLinesFrom(_, _, _, _)
SplitLinesFrom(s, start, i, keepends) ==
    IF i > Len(s)
    THEN IF start <= Len(s) THEN <<SubSeq(s, start, Len(s))>> ELSE <<>>
    ELSE LET boundary == s[i] \in LineBoundaries
             eol == IF s[i] = "\r" /\ i < Len(s) /\ s[i + 1] = "\n" THEN i + 1 ELSE i
             line == SubSeq(s, start, IF keepends THEN eol ELSE i - 1)
         IN  (IF boundary THEN <<line>> ELSE <<>>)
             \o SplitLinesFrom(s, IF boundary THEN eol + 1 ELSE start,
                               IF boundary THEN eol + 1 ELSE i + 1, keepends)

splitlines(s, keepends) == SplitLinesFrom(s, 1, 1, keepends)

(***************************************************************************)
(* difflib.SequenceMatcher without junk (Differ() passes no junk           *)
(* predicates; the popularity heuristic needs 200 elements).  Offsets are  *)
(* 0-based and ranges half open, as in the library.                        *)
(***************************************************************************)
RECURSIVE RunLength(_, _, _, _, _, _)
RunLength(a, b, i, j, ahi, bhi) ==
    IF i < ahi /\ j < bhi /\ a[i + 1] = b[j + 1]
    THEN 1 + RunLength(a, b, i + 1, j + 1, ahi, bhi)
    ELSE 0

\* The longest block a[i:i+k] = b[j:j+k] inside the ranges; of the longest,
\* the one starting earliest in a, and of those the earliest in b.  size maps
\* each pair of offsets to the length of the common run that starts there.
EarliestInB(size, best, i) ==
    <<i, SetMin({p[2] : p \in {q \in DOMAIN size : q[1] = i /\ size[q] = best}}), best>>

Earliest(alo, blo, size, best) ==
    IF best = 0 THEN <<alo, blo, 0>>
    ELSE EarliestInB(size, best,
                     SetMin({p[1] : p \in {q \in DOMAIN size : size[q] = best}}))

find_longest_match(a, b, alo, ahi, blo, bhi) ==
    LET size == [p \in (alo .. ahi - 1) \X (blo .. bhi - 1) |->
                    RunLength(a, b, p[1], p[2], ahi, bhi)]
    IN  Earliest(alo, blo, size, SetMax({0} \cup {size[p] : p \in DOMAIN size}))

\* The work list of get_matching_blocks: pop the last range, record its
\* longest match x, push the ranges left and right of it.
MatchingBlocksStep(st, top, x) ==
    [queue |-> SubSeq(st.queue, 1, Len(st.queue) - 1)
                 \o (IF x[3] > 0 /\ top[1] < x[1] /\ top[3] < x[2]
                     THEN <<(<<top[1], x[1], top[3], x[2]>>)>> ELSE <<>>)
                 \o (IF x[3] > 0 /\ x[1] + x[3] < top[2] /\ x[2] + x[3] < top[4]
                     THEN <<(<<x[1] + x[3], top[2], x[2] + x[3], top[4]>>)>> ELSE <<>>),
     matching_blocks |-> IF x[3] > 0 THEN Append(st.matching_blocks, x)
                         ELSE st.matching_blocks]

RECURSIVE MatchingBlocksLoop(_, _, _)
MatchingBlocksLoop(a, b, st) ==
    IF st.queue = <<>> THEN st.matching_blocks
    ELSE LET top == st.queue[Len(st.queue)]
         IN  MatchingBlocksLoop(a, b,
                 MatchingBlocksStep(st, top,
                     find_longest_match(a, b, top[1], top[2], top[3], top[4])))

RECURSIVE InsertBlock(_, _)
InsertBlock(x, s) ==
    IF s = <<>> THEN <<x>>
    ELSE <<(IF s[1][1] < x[1] THEN s[1] ELSE x)>>
         \o (IF s[1][1] < x[1] THEN InsertBlock(x, Tail(s)) ELSE s)

RECURSIVE SortBlocks(_)
SortBlocks(s) == IF s = <<>> THEN <<>> ELSE InsertBlock(Head(s), SortBlocks(Tail(s)))

\* Adjacent blocks are collapsed into one.
RECURSIVE Collapse(_, _, _)
Collapse(blocks, cur, non_adjacent) ==
    IF blocks = <<>>
    THEN IF cur[3] > 0 THEN Append(non_adjacent, cur) ELSE non_adjacent
    ELSE LET nxt == Head(blocks)
             adjacent == cur[1] + cur[3] = nxt[1] /\ cur[2] + cur[3] = nxt[2]
         IN  Collapse(Tail(blocks),
                      IF adjacent THEN <<cur[1], cur[2], cur[3] + nxt[3]>> ELSE nxt,
                      IF ~adjacent /\ cur[3] > 0 THEN Append(non_adjacent, cur)
                      ELSE non_adjacent)

\* The matching blocks in order, ended by the sentinel (len(a), len(b), 0).
get_matching_blocks(a, b) ==
    Append(Collapse(SortBlocks(MatchingBlocksLoop(a, b,
                        [queue |-> <<(<<0, Len(a), 0, Len(b)>>)>>,
                         matching_blocks |-> <<>>])),
                    <<0, 0, 0>>, <<>>),
           <<Len(a), Len(b), 0>>)

RECURSIVE SumSizes(_)
SumSizes(blocks) == IF blocks = <<>> THEN 0 ELSE Head(blocks)[3] + SumSizes(Tail(blocks))

Matches(a, b) == SumSizes(get_matching_blocks(a, b))

\* SequenceMatcher.ratio(): 2.0 * matches / (len(a) + len(b)), 1.0 for two
\* empty sequences.
ratio(a, b) ==
    IF Len(a) + Len(b) = 0 THEN <<1, 1>> ELSE <<2 * Matches(a, b), Len(a) + Len(b)>>

(***************************************************************************)
(* difflib.Differ.compare: the delta is a sequence of entries, each the    *)
(* two-character prefix ("- ", "+ ", "  ", "? ") and the line.             *)
(***************************************************************************)
Entry(tag, line) == [tag |-> tag, line |-> line]

Dump(tag, x, lo, hi) == [n \in 1 .. Max(hi - lo, 0) |-> Entry(tag, x[lo + n])]

PlainReplace(a, alo, ahi, b, blo, bhi) ==
    IF bhi - blo < ahi - alo
    THEN Dump("+ ", b, blo, bhi) \o Dump("- ", a, alo, ahi)
    ELSE Dump("- ", a, alo, ahi) \o Dump("+ ", b, blo, bhi)

\* "- " aline, "+ " bline, each followed by a "? " guide line when the line
\* has a character outside the equal blocks (m characters are inside).
QformatLines(aline, bline, m) ==
    <<Entry("- ", aline)>>
        \o (IF Len(aline) > m THEN <<Entry("? ", <<>>)>> ELSE <<>>)
        \o <<Entry("+ ", bline)>>
        \o (IF Len(bline) > m THEN <<Entry("? ", <<>>)>> ELSE <<>>)

Qformat(aline, bline) == QformatLines(aline, bline, Matches(aline, bline))

\* The search loop of _fancy_replace: for j, for i; the first pair of the
\* highest similarity above best_ratio, and the first pair of equal lines.
BetterPair(best, i, j, equal, r) ==
    IF equal
    THEN IF best.eqi = -1 THEN [best EXCEPT !.eqi = i, !.eqj = j] ELSE best
    ELSE IF RatGT(r, best.best_ratio)
         THEN [best EXCEPT !.best_ratio = r, !.best_i = i, !.best_j = j]
         ELSE best

RECURSIVE BestPair(_, _, _, _, _, _, _, _)
BestPair(a, alo, ahi, b, blo, bhi, n, best) ==
    IF n >= (ahi - alo) * (bhi - blo) THEN best
    ELSE LET j == blo + (n \div (ahi - alo))
             i == alo + (n % (ahi - alo))
         IN  BestPair(a, alo, ahi, b, blo, bhi, n + 1,
                      BetterPair(best, i, j, a[i + 1] = b[j + 1],
                                 ratio(a[i + 1], b[j + 1])))

\* One item of the output of _fancy_replace still to produce: the lines of
\* the ranges a[alo:ahi] and b[blo:bhi], or lines already made.
Range(alo, ahi, blo, bhi) ==
    [lines |-> <<>>, made |-> FALSE, alo |-> alo, ahi |-> ahi, blo |-> blo, bhi |-> bhi]

Made(lines) == [lines |-> lines, made |-> TRUE, alo |-> 0, ahi |-> 0, blo |-> 0, bhi |-> 0]

\* _fancy_replace on a range: without a close or an equal pair the plain
\* replacement; else what lies before the pair, the pair, what lies after.
FancySplit(a, alo, ahi, b, blo, bhi, close, best_i, best_j) ==
    IF best_i = -1
    THEN <<Made(PlainReplace(a, alo, ahi, b, blo, bhi))>>
    ELSE <<Range(alo, best_i, blo, best_j),
           Made(IF close THEN Qformat(a[best_i + 1], b[best_j + 1])
                ELSE <<Entry("  ", a[best_i + 1])>>),
           Range(best_i + 1, ahi, best_j + 1, bhi)>>

FancyFound(a, alo, ahi, b, blo, bhi, found) ==
    IF RatGE(found.best_ratio, <<3, 4>>)
    THEN FancySplit(a, alo, ahi, b, blo, bhi, TRUE, found.best_i, found.best_j)
    ELSE FancySplit(a, alo, ahi, b, blo, bhi, FALSE, found.eqi, found.eqj)

FancyReplace(a, alo, ahi, b, blo, bhi) ==
    FancyFound(a, alo, ahi, b, blo, bhi,
               BestPair(a, alo, ahi, b, blo, bhi, 0,
                        [best_ratio |-> <<37, 50>>, best_i |-> -1, best_j |-> -1,
                         eqi |-> -1, eqj |-> -1]))

\* _fancy_helper on a range.
FancyHelper(a, b, item) ==
    IF item.alo < item.ahi
    THEN IF item.blo < item.bhi
         THEN FancyReplace(a, item.alo, item.ahi, b, item.blo, item.bhi)
         ELSE <<Made(Dump("- ", a, item.alo, item.ahi))>>
    ELSE <<Made(Dump("+ ", b, item.blo, item.bhi))>>

RECURSIVE FancyLoop(_, _, _)
FancyLoop(a, b, work) ==
    IF work = <<>> THEN <<>>
    ELSE LET item == Head(work)
         IN  (IF item.made THEN item.lines ELSE <<>>)
             \o FancyLoop(a, b, (IF item.made THEN <<>> ELSE FancyHelper(a, b, item))
                                \o Tail(work))

\* get_opcodes walked by compare: the gap before each matching block is a
\* replace, a delete or an insert; the block itself is equal.
RECURSIVE CompareFrom(_, _, _, _, _)
CompareFrom(a, b, blocks, i, j) ==
    IF blocks = <<>> THEN <<>>
    ELSE LET ai == Head(blocks)[1]
             bj == Head(blocks)[2]
             size == Head(blocks)[3]
         IN  FancyLoop(a, b, <<Range(i, ai, j, bj)>>)
                 \o Dump("  ", a, ai, ai + size)
                 \o CompareFrom(a, b, Tail(blocks), ai + size, bj + size)

compare(a, b) == CompareFrom(a, b, get_matching_blocks(a, b), 0, 0)

(***************************************************************************)
(* DiffViewer.has_significant_changes.  The result carries the locals      *)
(* diff, changed_lines and max_lines; counted tells whether the line count *)
(* was reached.                                                            *)
(***************************************************************************)
Verdict(significant, counted, diff, changed_lines, max_lines) ==
    [significant |-> significant, counted |-> counted, diff |-> diff,
     changed_lines |-> changed_lines, max_lines |-> max_lines]

\* change_ratio = changed_lines / max_lines, significant from the threshold up.
Ratio(diff, changed_lines, max_lines, threshold) ==
    Verdict(RatGE(<<changed_lines, max_lines>>, threshold), TRUE, diff,
            changed_lines, max_lines)

CountChanges(lines1, lines2, diff, threshold) ==
    IF Max(Len(lines1), Len(lines2)) = 0 THEN Verdict(FALSE, FALSE, <<>>, 0, 0)
    ELSE Ratio(diff,
               Cardinality({n \in 1 .. Len(diff) : diff[n].tag \in {"+ ", "- "}}),
               Max(Len(lines1), Len(lines2)), threshold)

SplitAndCount(lines1, lines2, threshold) ==
    CountChanges(lines1, lines2, compare(lines1, lines2), threshold)

has_significant_changes(content1, content2, threshold) ==
    IF (content1 = <<>> /\ content2 # <<>>) \/ (content2 = <<>> /\ content1 # <<>>)
    THEN Verdict(TRUE, FALSE, <<>>, 0, 0)
    ELSE IF content1 = <<>> /\ content2 = <<>>
    THEN Verdict(FALSE, FALSE, <<>>, 0, 0)
    ELSE SplitAndCount(splitlines(content1, FALSE), splitlines(content2, FALSE),
                       threshold)

(***************************************************************************)
(* DiffViewer.highlight_diff.  left_diff and right_diff are the line       *)
(* numbers tagged 'diff' in each text widget, left_missing and             *)
(* right_missing tell whether the whole widget is tagged 'missing'; diff,  *)
(* l and r are the locals at the end of the walk.                          *)
(***************************************************************************)
NoHighlight ==
    [left_diff |-> {}, right_diff |-> {}, left_missing |-> FALSE,
     right_missing |-> FALSE, walked |-> FALSE, diff |-> <<>>, l |-> 1, r |-> 1]

\* WalkLine with an unchanged line advancing the left cursor alone.
WalkLineLeftOnly(st, line) ==
    IF line.tag = "- "
    THEN [st EXCEPT !.left_diff = @ \cup {st.l}, !.l = @ + 1, !.diff = Append(@, line)]
    ELSE IF line.tag = "+ "
    THEN [st EXCEPT !.right_diff = @ \cup {st.r}, !.r = @ + 1, !.diff = Append(@, line)]
    ELSE IF line.tag = "  "
    THEN [st EXCEPT !.l = @ + 1, !.diff = Append(@, line)]
    ELSE [st EXCEPT !.diff = Append(@, line)]

WalkLine(st, line) ==
    IF line.tag = "- "
    THEN [st EXCEPT !.left_diff = @ \cup {st.l}, !.l = @ + 1, !.diff = Append(@, line)]
    ELSE IF line.tag = "+ "
    THEN [st EXCEPT !.right_diff = @ \cup {st.r}, !.r = @ + 1, !.diff = Append(@, line)]
    ELSE IF line.tag = "  "
    THEN [st EXCEPT !.l = @ + 1, !.r = @ + 1, !.diff = Append(@, line)]
    ELSE [st EXCEPT !.diff = Append(@, line)]

RECURSIVE WalkDiff(_, _)
WalkDiff(diff, st) ==
    IF diff = <<>> THEN st ELSE WalkDiff(Tail(diff), WalkLine(st, Head(diff)))

highlight_diff(c1, c2) ==
    IF c1 = <<>> /\ c2 # <<>>
    THEN [NoHighlight EXCEPT !.right_missing = TRUE]
    ELSE IF c2 = <<>> /\ c1 # <<>>
    THEN [NoHighlight EXCEPT !.left_missing = TRUE]
    ELSE WalkDiff(compare(splitlines(c1, TRUE), splitlines(c2, TRUE)),
                  [NoHighlight EXCEPT !.walked = TRUE])

(***************************************************************************)
(* The two directory trees.  A relative path is a sequence of segments; a  *)
(* location is the root (1 for dir1, 2 for dir2) and the relative path.    *)
(* A file is absent, present with its bytes, or present and unreadable.    *)
(***************************************************************************)
Roots == {1, 2}

IGNORED_DIRS_DEFAULT ==
    {".git", ".svn", ".hg", "__pycache__", "build", "dist", "out", ".idea",
     ".vscode", ".vs", ".gradle", ".dart_tool", "node_modules", ".cache",
     ".pytest_cache", "target"}

\* The segment names of the model, in ascending code point order.
SegmentOrder == <<".git", "a.py", "b.py", "lib">>

PathIgnored == <<".git", "a.py">>
PathA == <<"a.py">>
PathB == <<"lib", "b.py">>
PathC == <<"lib", "a.py">>
Paths == {PathIgnored, PathA, PathB, PathC}

Threshold005 == <<1, 20>>
Thresholds == {Threshold005, <<1, 1>>, <<3, 2>>}
CoreThresholds == {Threshold005, <<1, 1>>}

FileAlphabet == {"a", "\n"}
CrLfLine == <<"a", "\r", "\n">>
Absent == [kind |-> "absent", data |-> <<>>]
Unreadable == [kind |-> "unreadable", data |-> <<>>]
File(data) == [kind |-> "file", data |-> data]
None == [root |-> 0, rel |-> <<>>]
Loc(root, rel) == [root |-> root, rel |-> rel]

VARIABLES
    dir_exists,             \* whether each root directory exists
    disk,                   \* disk[root][rel]: the file at that location
    min_change_threshold,
    file_pairs,             \* sequence of [f1, f2, rel]
    current_index,
    original_left,
    original_right,
    file_combo,             \* the combobox's current index, -1 for none
    hl,                     \* the tags set by the last highlight_diff
    scan_log,               \* what scan_directories walked, read and classified
    content1,               \* the classifier's and aligner's inputs and the
    content2,               \*   classifier's result, when run on their own
    verdict,
    op,                     \* the last handler called
    pc

vars == <<dir_exists, disk, min_change_threshold, file_pairs, current_index,
          original_left, original_right, file_combo, hl, scan_log, content1,
          content2, verdict, op, pc>>

(***************************************************************************)
(* Path.read_text(encoding='utf-8', errors='ignore'): text mode translates *)
(* "\r\n" and "\r" to "\n".  readable is false when the read raises.       *)
(***************************************************************************)
RECURSIVE TranslateNewlines(_)
TranslateNewlines(s) ==
    IF s = <<>> THEN <<>>
    ELSE <<(IF Head(s) = "\r" THEN "\n" ELSE Head(s))>>
         \o TranslateNewlines(IF Head(s) = "\r" /\ Len(s) > 1 /\ s[2] = "\n"
                              THEN Tail(Tail(s)) ELSE Tail(s))

readable(f) == disk[f.root][f.rel].kind = "file"

exists(f) == disk[f.root][f.rel].kind # "absent"

read_text(f) == TranslateNewlines(disk[f.root][f.rel].data)

(***************************************************************************)
(* DiffViewer.list_files: the files below base that are under no ignored   *)
(* directory (os.walk of a missing directory yields nothing).              *)
(***************************************************************************)
DirSegments(rel) == {rel[n] : n \in 1 .. Len(rel) - 1}

list_files(base) ==
    IF ~dir_exists[base] THEN {}
    ELSE {rel \in Paths : /\ disk[base][rel].kind # "absent"
                          /\ DirSegments(rel) \cap IGNORED_DIRS_DEFAULT = {}}

(***************************************************************************)
(* sorted() of relative paths: Path orders by its parts, each part by code *)
(* points.                                                                 *)
(***************************************************************************)
Rank(seg) == CHOOSE n \in 1 .. Len(SegmentOrder) : SegmentOrder[n] = seg

RECURSIVE PathLess(_, _)
PathLess(p, q) ==
    IF q = <<>> THEN FALSE
    ELSE IF p = <<>> THEN TRUE
    ELSE IF Head(p) = Head(q) THEN PathLess(Tail(p), Tail(q))
    ELSE Rank(Head(p)) < Rank(Head(q))

RECURSIVE Insert(_, _)
Insert(x, s) ==
    IF s = <<>> THEN <<x>>
    ELSE IF PathLess(Head(s), x) THEN <<Head(s)>> \o Insert(x, Tail(s))
    ELSE <<x>> \o s

\* sorted() left out: all_paths in the order the union was iterated.
Unsorted(s) == s

RECURSIVE sorted(_)
sorted(s) == IF s = <<>> THEN <<>> ELSE Insert(Head(s), sorted(Tail(s)))

Perms(S) ==
    {s \in [1 .. Cardinality(S) -> S] : \A m, n \in 1 .. Cardinality(S) : s[m] = s[n] => m = n}

\* set(files1.keys()) | set(files2.keys()), in one of its iteration orders.
UnionOrder(walk1, walk2) ==
    walk1 \o SelectSeq(walk2, LAMBDA rel : \A n \in 1 .. Len(walk1) : walk1[n] # rel)

(***************************************************************************)
(* DiffViewer.scan_directories.  ScanPair is one turn of the loop over     *)
(* all_paths; acc is file_pairs with the reads and the classifier calls    *)
(* made so far.                                                            *)
(***************************************************************************)
Pair(f1, f2, rel) == [f1 |-> f1, f2 |-> f2, rel |-> rel]

\* ScanPair with a missing side read as empty text and classified, and with
\* a failed read dropping the pair.
ScanPairMissingAsEmpty(acc, files1, files2, rel, threshold) ==
    LET f1 == IF rel \in files1 THEN Loc(1, rel) ELSE None
        f2 == IF rel \in files2 THEN Loc(2, rel) ELSE None
        c1 == IF f1 # None /\ readable(f1) THEN read_text(f1) ELSE <<>>
        c2 == IF f2 # None /\ readable(f2) THEN read_text(f2) ELSE <<>>
        seen == [acc EXCEPT !.reads = @ \cup ({f1, f2} \ {None}),
                            !.classified = @ \cup {rel}]
    IN  IF c1 # c2 /\ has_significant_changes(c1, c2, threshold).significant
        THEN [seen EXCEPT !.file_pairs = Append(@, Pair(f1, f2, rel))]
        ELSE seen

\* ScanPair keeping every pair whose texts differ, without the classifier.
ScanPairAnyDifference(acc, files1, files2, rel, threshold) ==
    LET f1 == IF rel \in files1 THEN Loc(1, rel) ELSE None
        f2 == IF rel \in files2 THEN Loc(2, rel) ELSE None
        kept == [acc EXCEPT !.file_pairs = Append(@, Pair(f1, f2, rel))]
    IN  IF f1 = None \/ f2 = None THEN kept
        ELSE IF ~readable(f1) THEN [kept EXCEPT !.reads = @ \cup {f1}]
        ELSE IF ~readable(f2) THEN [kept EXCEPT !.reads = @ \cup {f1, f2}]
        ELSE IF read_text(f1) # read_text(f2)
        THEN [kept EXCEPT !.reads = @ \cup {f1, f2}]
        ELSE [acc EXCEPT !.reads = @ \cup {f1, f2}]

ScanPair(acc, files1, files2, rel, threshold) ==
    LET f1 == IF rel \in files1 THEN Loc(1, rel) ELSE None
        f2 == IF rel \in files2 THEN Loc(2, rel) ELSE None
        kept == [acc EXCEPT !.file_pairs = Append(@, Pair(f1, f2, rel))]
    IN  IF f1 = None \/ f2 = None THEN kept
        ELSE IF ~readable(f1) THEN [kept EXCEPT !.reads = @ \cup {f1}]
        ELSE IF ~readable(f2) THEN [kept EXCEPT !.reads = @ \cup {f1, f2}]
        ELSE IF read_text(f1) # read_text(f2)
        THEN IF has_significant_changes(read_text(f1), read_text(f2), threshold).significant
             THEN [kept EXCEPT !.reads = @ \cup {f1, f2}, !.classified = @ \cup {rel}]
             ELSE [acc EXCEPT !.reads = @ \cup {f1, f2}, !.classified = @ \cup {rel}]
        ELSE [acc EXCEPT !.reads = @ \cup {f1, f2}]

RECURSIVE ScanLoop(_, _, _, _, _)
ScanLoop(acc, files1, files2, all_paths, threshold) ==
    IF all_paths = <<>> THEN acc
    ELSE ScanLoop(ScanPair(acc, files1, files2, Head(all_paths), threshold),
                  files1, files2, Tail(all_paths), threshold)

scan_directories(pairs, walk1, walk2, threshold) ==
    LET files1 == {walk1[n] : n \in 1 .. Len(walk1)}
        files2 == {walk2[n] : n \in 1 .. Len(walk2)}
        all_paths == sorted(UnionOrder(walk1, walk2))
    IN  ScanLoop([file_pairs |-> pairs, reads |-> {}, classified |-> {},
                  walked |-> {1, 2}],
                 files1, files2, all_paths, threshold)

(***************************************************************************)
(* DiffViewer.load_file_pair, as the new values of the fields it assigns.  *)
(* raised: a read_text raised after current_index was assigned.            *)
(***************************************************************************)
Loaded(index, left, right, tags, raised) ==
    [current_index |-> index, original_left |-> left, original_right |-> right,
     hl |-> tags, raised |-> raised]

LoadPair(index, pair, left, right, tags) ==
    LET read1 == pair.f1 # None /\ exists(pair.f1)
        read2 == pair.f2 # None /\ exists(pair.f2)
        c1 == IF read1 THEN read_text(pair.f1) ELSE <<>>
        c2 == IF read2 THEN read_text(pair.f2) ELSE <<>>
    IN  IF (read1 /\ ~readable(pair.f1)) \/ (read2 /\ ~readable(pair.f2))
        THEN Loaded(index, left, right, tags, TRUE)
        ELSE Loaded(index, c1, c2, highlight_diff(c1, c2), FALSE)

\* load_file_pair with the guard index < len(file_pairs): a negative index
\* counts from the end of the list.
LoadWithoutLowerBound(index, pairs, cur, left, right, tags) ==
    IF ~(index < Len(pairs))
    THEN Loaded(cur, left, right, tags, FALSE)
    ELSE IF pairs = <<>>
    THEN Loaded(index, left, right, tags, TRUE)
    ELSE LoadPair(index, pairs[IF index < 0 THEN Len(pairs) + 1 + index ELSE index + 1],
                  left, right, tags)

load_file_pair(index, pairs, cur, left, right, tags) ==
    IF ~(0 <= index /\ index < Len(pairs))
    THEN Loaded(cur, left, right, tags, FALSE)
    ELSE LoadPair(index, pairs[index + 1], left, right, tags)

(***************************************************************************)
(* The viewer: the state before DiffViewer(root, dir1, dir2, threshold) is *)
(* constructed, the constructor, and the handlers of the window.           *)
(***************************************************************************)
NoVerdict == Verdict(FALSE, FALSE, <<>>, 0, 0)
NoScan == [reads |-> {}, classified |-> {}, walked |-> {}]
Op(name, index) == [name |-> name, index |-> index]

FileStates ==
    {Absent, Unreadable} \cup {File(d) : d \in SeqsUpTo(FileAlphabet, MaxFileLen)}
        \cup {File(CrLfLine)}

\* PathA carries every file state in both trees; the other paths carry an
\* empty file or none, PathC and the ignored path in dir1 alone.
Trees ==
    {t \in [Paths -> {Absent, File(<<>>)}] : t[PathA] = Absent}

TreesWith(base) ==
    {[t EXCEPT ![PathA] = f] : f \in FileStates,
                               t \in {u \in Trees : base = 2 =>
                                         u[PathC] = Absent /\ u[PathIgnored] = Absent}}

EmptyTree == [rel \in Paths |-> Absent]

Init ==
    /\ dir_exists \in [Roots -> BOOLEAN]
    /\ \E t1 \in TreesWith(1), t2 \in TreesWith(2) :
          disk = [base \in Roots |->
                     IF ~dir_exists[base] THEN EmptyTree
                     ELSE IF base = 1 THEN t1 ELSE t2]
    /\ min_change_threshold \in Thresholds
    /\ file_pairs = <<>>
    /\ current_index = 0
    /\ original_left = <<>>
    /\ original_right = <<>>
    /\ file_combo = -1
    /\ hl = NoHighlight
    /\ scan_log = NoScan
    /\ content1 = <<>>
    /\ content2 = <<>>
    /\ verdict = NoVerdict
    /\ op = Op("none", 0)
    /\ pc = "start"

Apply(loaded) ==
    /\ current_index' = loaded.current_index
    /\ original_left' = loaded.original_left
    /\ original_right' = loaded.original_right
    /\ hl' = loaded.hl

\* DiffViewer.__init__: scan_directories(), then load_file_pair(0) when there
\* are pairs.  A read that raises in load_file_pair aborts the constructor.
Loading(loaded) ==
    /\ Apply(loaded)
    /\ pc' = IF loaded.raised THEN "aborted" ELSE "running"

Scanned(scan) ==
    /\ file_pairs' = scan.file_pairs
    /\ scan_log' = [reads |-> scan.reads, classified |-> scan.classified,
                    walked |-> scan.walked]
    /\ file_combo' = IF scan.file_pairs # <<>> THEN 0 ELSE file_combo
    /\ Loading(load_file_pair(0, scan.file_pairs, current_index, original_left,
                              original_right, hl))

Construct ==
    /\ pc = "start"
    /\ \E walk1 \in Perms(list_files(1)), walk2 \in Perms(list_files(2)) :
          Scanned(scan_directories(file_pairs, walk1, walk2, min_change_threshold))
    /\ op' = Op("__init__", 0)
    /\ UNCHANGED <<dir_exists, disk, min_change_threshold, content1, content2, verdict>>

Frame == UNCHANGED <<dir_exists, disk, min_change_threshold, file_pairs, scan_log,
                     content1, content2, verdict, pc>>

LoadFilePair(index) ==
    /\ pc = "running"
    /\ Apply(load_file_pair(index, file_pairs, current_index, original_left,
                            original_right, hl))
    /\ op' = Op("load_file_pair", index)
    /\ UNCHANGED file_combo
    /\ Frame

\* The user picks entry index of the combobox, which calls on_file_selected.
OnFileSelected(index) ==
    /\ pc = "running"
    /\ file_combo' = index
    /\ Apply(load_file_pair(index, file_pairs, current_index, original_left,
                            original_right, hl))
    /\ op' = Op("on_file_selected", index)
    /\ Frame

PrevFile ==
    /\ pc = "running"
    /\ IF current_index > 0
       THEN /\ file_combo' = current_index - 1
            /\ Apply(load_file_pair(current_index - 1, file_pairs, current_index,
                                    original_left, original_right, hl))
       ELSE UNCHANGED <<file_combo, current_index, original_left, original_right, hl>>
    /\ op' = Op("prev_file", 0)
    /\ Frame

NextFile ==
    /\ pc = "running"
    /\ IF current_index < Len(file_pairs) - 1
       THEN /\ file_combo' = current_index + 1
            /\ Apply(load_file_pair(current_index + 1, file_pairs, current_index,
                                    original_left, original_right, hl))
       ELSE UNCHANGED <<file_combo, current_index, original_left, original_right, hl>>
    /\ op' = Op("next_file", 0)
    /\ Frame

Next ==
    \/ Construct
    \/ \E index \in -1 .. Len(file_pairs) : LoadFilePair(index)
    \/ \E index \in 0 .. Len(file_pairs) - 1 : OnFileSelected(index)
    \/ PrevFile
    \/ NextFile

Spec == Init /\ [][Next]_vars

(***************************************************************************)
(* Properties of the scan and of the navigation, under Spec.               *)
(***************************************************************************)
Kept(rel) == \E n \in 1 .. Len(file_pairs) : file_pairs[n].rel = rel

LocOrNone(base, rel) == IF rel \in list_files(base) THEN Loc(base, rel) ELSE None

OneSided(rel) == (rel \in list_files(1)) # (rel \in list_files(2))

TwoSided(rel) == rel \in list_files(1) /\ rel \in list_files(2)

\* C1: after the scan every relative path enumerated under exactly one root
\* has its pair in file_pairs, the missing side None, whatever the threshold,
\* and the scan neither read nor classified it.
C1_OneSidedKept ==
    pc # "start" =>
        \A rel \in Paths :
            OneSided(rel) =>
                /\ \E n \in 1 .. Len(file_pairs) :
                      file_pairs[n] = Pair(LocOrNone(1, rel), LocOrNone(2, rel), rel)
                /\ scan_log.reads \cap {Loc(1, rel), Loc(2, rel)} = {}
                /\ rel \notin scan_log.classified

\* A scan with threshold 1.0 kept a pair whose left side is missing and whose
\* right side is an empty file.
C1_Witness ==
    /\ pc = "running"
    /\ min_change_threshold = <<1, 1>>
    /\ \E n \in 1 .. Len(file_pairs) :
          /\ file_pairs[n].f1 = None
          /\ file_pairs[n].f2 # None
          /\ disk[2][file_pairs[n].rel] = File(<<>>)

\* C2: a relative path present under both roots is kept if and only if a
\* read of one of its files fails, or the two texts read differ and
\* has_significant_changes is true of them.
SignificantPair(rel) ==
    /\ read_text(Loc(1, rel)) # read_text(Loc(2, rel))
    /\ has_significant_changes(read_text(Loc(1, rel)), read_text(Loc(2, rel)),
                               min_change_threshold).significant

C2_TwoSidedKeptIff ==
    pc # "start" =>
        \A rel \in Paths :
            TwoSided(rel) =>
                (Kept(rel) <=> \/ ~readable(Loc(1, rel))
                               \/ ~readable(Loc(2, rel))
                               \/ SignificantPair(rel))

\* The scan dropped a pair of readable files whose texts differ (below
\* the threshold), in a tree where bytes differ and texts are equal too.
C2_Witness ==
    /\ pc = "running"
    /\ TwoSided(PathA)
    /\ readable(Loc(1, PathA)) /\ readable(Loc(2, PathA))
    /\ read_text(Loc(1, PathA)) # read_text(Loc(2, PathA))
    /\ ~Kept(PathA)
    /\ file_pairs # <<>>

\* C3: file_pairs is strictly ascending in the relative path, and the scan
\* gives this same sequence for every order in which the two walks list
\* the files.
C3_SortedDeterministic ==
    pc # "start" =>
        /\ \A m, n \in 1 .. Len(file_pairs) :
              m < n => PathLess(file_pairs[m].rel, file_pairs[n].rel)
        /\ \A walk1 \in Perms(list_files(1)), walk2 \in Perms(list_files(2)) :
              scan_directories(<<>>, walk1, walk2, min_change_threshold).file_pairs
                  = file_pairs

\* A scan kept three pairs.
C3_Witness == pc = "running" /\ Len(file_pairs) = 3

\* C9: a scan with a threshold outside [0, 1] or with a root that does not
\* exist stops with a configuration error before any directory is walked,
\* and no pair is appended to file_pairs.
ValidThreshold(t) == RatGE(t, <<0, 1>>) /\ RatGE(<<1, 1>>, t)

C9_FailsFast ==
    (pc # "start" /\ (~ValidThreshold(min_change_threshold)
                      \/ \E base \in Roots : ~dir_exists[base]))
        => scan_log.walked = {} /\ file_pairs = <<>>

\* C10: with pairs in the list current_index stays inside it; prev_file at
\* index 0, next_file at the last index and load_file_pair with an index
\* outside the list change neither current_index nor the loaded originals;
\* any other prev_file or next_file moves current_index by exactly one.
IndexInRange == file_pairs # <<>> => 0 <= current_index /\ current_index < Len(file_pairs)

NavigationStep ==
    /\ (op'.name = "prev_file" /\ current_index = 0) =>
           UNCHANGED <<current_index, original_left, original_right>>
    /\ (op'.name = "prev_file" /\ current_index > 0) =>
           current_index' = current_index - 1
    /\ (op'.name = "next_file" /\ current_index = Len(file_pairs) - 1) =>
           UNCHANGED <<current_index, original_left, original_right>>
    /\ (op'.name = "next_file" /\ current_index < Len(file_pairs) - 1) =>
           current_index' = current_index + 1
    /\ (op'.name = "load_file_pair"
            /\ (op'.index < 0 \/ op'.index >= Len(file_pairs))) =>
           UNCHANGED <<current_index, original_left, original_right>>

C10_Navigation == [](IndexInRange) /\ [][NavigationStep]_vars

\* load_file_pair(-1) was called on a list of three pairs showing the last.
C10_Witness ==
    /\ pc = "running"
    /\ Len(file_pairs) = 3
    /\ current_index = 2
    /\ op = Op("load_file_pair", -1)

(***************************************************************************)
(* The classifier and the aligner on their own: has_significant_changes    *)
(* and then highlight_diff applied to a pair of contents.                  *)
(***************************************************************************)
Letters == {"a", "b", "c"}

\* Every text of at most MaxLen characters over a letter and the newline.
ShortTexts == SeqsUpTo({"a", "\n"}, MaxLen)

\* At most MaxLines one-letter lines, joined by newlines.
RECURSIVE Join(_)
Join(lines) ==
    IF lines = <<>> THEN <<>>
    ELSE IF Len(lines) = 1 THEN Head(lines)
    ELSE Head(lines) \o <<"\n">> \o Join(Tail(lines))

LineTexts == {Join(ls) : ls \in SeqsUpTo({<<x>> : x \in Letters}, MaxLines)}

\* ScenarioLines lines "a", and the same with line k changed to "b".
ScenarioLeft == Join([n \in 1 .. ScenarioLines |-> <<"a">>])
ScenarioRight(k) == Join([n \in 1 .. ScenarioLines |-> IF n = k THEN <<"b">> ELSE <<"a">>])

InputPairs ==
    (ShortTexts \X ShortTexts) \cup (LineTexts \X LineTexts)
        \cup {<<ScenarioLeft, ScenarioRight(k)>> : k \in 1 .. ScenarioLines}

InitCore ==
    /\ dir_exists = [base \in Roots |-> TRUE]
    /\ disk = [base \in Roots |-> EmptyTree]
    /\ min_change_threshold \in CoreThresholds
    /\ file_pairs = <<>>
    /\ current_index = 0
    /\ original_left = <<>>
    /\ original_right = <<>>
    /\ file_combo = -1
    /\ hl = NoHighlight
    /\ scan_log = NoScan
    /\ \E p \in InputPairs : content1 = p[1] /\ content2 = p[2]
    /\ verdict = NoVerdict
    /\ op = Op("none", 0)
    /\ pc = "classify"

CoreFrame == UNCHANGED <<dir_exists, disk, min_change_threshold, file_pairs,
                         current_index, original_left, original_right, file_combo,
                         scan_log, content1, content2>>

HasSignificantChanges ==
    /\ pc = "classify"
    /\ verdict' = has_significant_changes(content1, content2, min_change_threshold)
    /\ op' = Op("has_significant_changes", 0)
    /\ pc' = "highlight"
    /\ UNCHANGED hl
    /\ CoreFrame

HighlightDiff ==
    /\ pc = "highlight"
    /\ hl' = highlight_diff(content1, content2)
    /\ op' = Op("highlight_diff", 0)
    /\ pc' = "done"
    /\ UNCHANGED verdict
    /\ CoreFrame

NextCore == HasSignificantChanges \/ HighlightDiff

SpecCore == InitCore /\ [][NextCore]_vars
(***************************************************************************)
(* Properties of the classifier and of the aligner, under SpecCore.        *)
(***************************************************************************)
Changed(diff) == SelectSeq(diff, LAMBDA e : e.tag \in {"+ ", "- "})

\* A line without its line terminator.
Chomp(line) ==
    IF line # <<>> /\ line[Len(line)] \in LineBoundaries
    THEN SubSeq(line, 1, Len(line) - 1) ELSE line

Chomped(diff) == [n \in 1 .. Len(diff) |-> Entry(diff[n].tag, Chomp(diff[n].line))]

Count(s, e) == Cardinality({n \in 1 .. Len(s) : s[n] = e})

SameBag(s, t) ==
    \A e \in {s[n] : n \in 1 .. Len(s)} \cup {t[n] : n \in 1 .. Len(t)} :
        Count(s, e) = Count(t, e)

\* C4: the lines highlight_diff marks as left-only or right-only are the
\* same multiset of lines that has_significant_changes counts as changed.
C4_SameChangedLines ==
    (pc = "done" /\ verdict.counted /\ hl.walked) =>
        SameBag(Chomped(Changed(hl.diff)), Changed(verdict.diff))

\* C5: with ScenarioLines lines on the left and exactly one of them changed
\* on the right, changed_lines is 1, the ratio is 1 / ScenarioLines, and the
\* pair is significant when the threshold equals that ratio.
OneLineChanged(lines1, lines2) ==
    /\ Len(lines1) = ScenarioLines
    /\ Len(lines2) = ScenarioLines
    /\ Cardinality({n \in 1 .. ScenarioLines : lines1[n] # lines2[n]}) = 1

C5_OneOfTwenty ==
    (pc = "done" /\ OneLineChanged(splitlines(content1, FALSE),
                                   splitlines(content2, FALSE))) =>
        /\ verdict.changed_lines = 1
        /\ verdict.max_lines = ScenarioLines
        /\ (min_change_threshold = <<1, ScenarioLines>> => verdict.significant)

\* C6: for two non-empty contents the change ratio changed_lines / max_lines
\* lies in [0, 1].
C6_RatioInUnitInterval ==
    (pc # "classify" /\ verdict.counted) =>
        0 <= verdict.changed_lines /\ verdict.changed_lines <= verdict.max_lines

\* C7: the classifier gives (b, a) the ratio and the verdict it gives (a, b).
SameRatio(v, w) ==
    /\ v.changed_lines * w.max_lines = w.changed_lines * v.max_lines
    /\ v.significant = w.significant

C7_Symmetric ==
    pc # "classify" =>
        SameRatio(verdict,
                  has_significant_changes(content2, content1, min_change_threshold))

\* C8: the script walked by highlight_diff gives back the lines of the left
\* (its unchanged and left-only entries) and of the right (its unchanged and
\* right-only entries), the cursors end one past the last line of their
\* side, and every highlighted line number is a line of its side; with one
\* side empty the other side is marked as a whole, with both empty nothing.
LinesOf(diff, tags) ==
    LET kept == SelectSeq(diff, LAMBDA e : e.tag \in tags)
    IN  [n \in 1 .. Len(kept) |-> kept[n].line]

RoundTrip(left, right) ==
    /\ LinesOf(hl.diff, {"  ", "- "}) = left
    /\ LinesOf(hl.diff, {"  ", "+ "}) = right
    /\ hl.l = Len(left) + 1
    /\ hl.r = Len(right) + 1
    /\ hl.left_diff \subseteq 1 .. Len(left)
    /\ hl.right_diff \subseteq 1 .. Len(right)
    /\ ~hl.left_missing /\ ~hl.right_missing

C8_AlignRoundTrip ==
    pc = "done" =>
        IF content1 = <<>> /\ content2 # <<>>
        THEN hl = [NoHighlight EXCEPT !.right_missing = TRUE]
        ELSE IF content2 = <<>> /\ content1 # <<>>
        THEN hl = [NoHighlight EXCEPT !.left_missing = TRUE]
        ELSE /\ hl.walked
             /\ RoundTrip(splitlines(content1, TRUE), splitlines(content2, TRUE))
             /\ (content1 = <<>> /\ content2 = <<>> =>
                    hl.left_diff = {} /\ hl.right_diff = {})

\* A walk that marked lines on both sides, passed unchanged lines and a
\* guide line, and ended on different cursors.
C8_Witness ==
    /\ pc = "done"
    /\ hl.walked
    /\ hl.left_diff # {} /\ hl.right_diff # {}
    /\ \E n \in 1 .. Len(hl.diff) : hl.diff[n].tag = "  "
    /\ \E n \in 1 .. Len(hl.diff) : hl.diff[n].tag = "? "
    /\ hl.l # hl.r
====
